---- MODULE Spec2Model ----
(***************************************************************************)
(* Model of the generic Stack / Queue containers (src/queue/queue.go) and  *)
(* of the worker-pool pipeline of package main (src/unnamed/part_000): one *)
(* coordinator (main) that pops a stack into an unbuffered input channel,  *)
(* W workers that range over the input channel, validate, and send one     *)
(* boolean verdict on an unbuffered output channel.                        *)
(*                                                                         *)
(* One pipeline run is modelled (lines 38-65 and, with strings, 71-98 are  *)
(* the same protocol); main's return (line 99) ends the process and with   *)
(* it every goroutine that is still alive.                                 *)
(***************************************************************************)
EXTENDS Integers, Sequences, FiniteSets

VARIABLES
    NUM_INTS,      \* upper limit of the push loop (const NUM_INTS, generalised)
    W,             \* number of workers spawned (const NUM_WORKERS, generalised)
    validate,      \* the validation function handed to the workers
    input,         \* history: the items pushed before the run, in push order
    stack_items,   \* Stack.items
    queue_items,   \* Queue.items
    pc,            \* main's position
    i,             \* main's loop counter (push loop, then spawn loop)
    item,          \* main's local `item` (result of Pop)
    found,         \* the second result of Pop, which main discards
    ch_in_closed,  \* whether close(ch_in) has happened
    num_valid,     \* main's counter of true verdicts
    printed,       \* the counts printed so far ("Number of valid items")
    wpc,           \* position of each worker goroutine
    w_item,        \* worker local `item`
    w_valid,       \* worker local `valid`
    sent,          \* history: sends completed on the input channel
    vrecv,         \* history: receives completed by main on the output channel
    recvd,         \* history: items each worker received
    vsent,         \* history: verdicts each worker sent
    calls,         \* history: validator invocations of each worker
    closes,        \* history: number of close(ch_in) executed
    log,           \* history of the mutating container calls and their results
    ret            \* result of the last container call

vars == << NUM_INTS, W, validate, input, stack_items, queue_items, pc, i, item,
           found, ch_in_closed, num_valid, printed, wpc, w_item, w_valid, sent,
           vrecv, recvd, vsent, calls, closes, log, ret >>

pipeVars == << NUM_INTS, W, validate, input, pc, i, item, found, ch_in_closed,
               num_valid, printed, wpc, w_item, w_valid, sent, vrecv, recvd,
               vsent, calls, closes >>

(***************************************************************************)
(* Bounds                                                                  *)
(***************************************************************************)
MaxInts == 3
MaxWorkers == 3
MaxK == 3
MaxOps == 6

(***************************************************************************)
(* Values                                                                  *)
(***************************************************************************)
\* `var default_val T` / `var zero T` for T = int
ZeroValue == 0

\* the i-th item main pushes: stack_int.Push(5 + i*7)
ItemAt(n) == 5 + n * 7

ItemSet == { ItemAt(n) : n \in 0..MaxInts }

\* validate_int := func(n int) bool { return n%2 == 0 }
validate_int == [ n \in ItemSet |-> n % 2 = 0 ]

Workers == 1..MaxWorkers

(***************************************************************************)
(* Stack[T]                                                                *)
(***************************************************************************)
Push(items, x) == Append(items, x)

\* variant: removes the oldest item instead of the newest
PopOldest(items) ==
    IF Len(items) = 0
    THEN [ item |-> ZeroValue, found |-> FALSE, items |-> items ]
    ELSE [ item  |-> items[1],
           found |-> TRUE,
           items |-> SubSeq(items, 2, Len(items)) ]

Pop(items) ==
    IF Len(items) = 0
    THEN [ item |-> ZeroValue, found |-> FALSE, items |-> items ]
    ELSE [ item  |-> items[Len(items)],
           found |-> TRUE,
           items |-> SubSeq(items, 1, Len(items) - 1) ]

\* variant: looks at the oldest item instead of the newest
StackPeekOldest(items) ==
    IF Len(items) = 0
    THEN [ item |-> ZeroValue, found |-> FALSE ]
    ELSE [ item |-> items[1], found |-> TRUE ]

StackPeek(items) ==
    IF Len(items) = 0
    THEN [ item |-> ZeroValue, found |-> FALSE ]
    ELSE [ item |-> items[Len(items)], found |-> TRUE ]

StackIsEmpty(items) == Len(items) = 0

(***************************************************************************)
(* Queue[T]                                                                *)
(***************************************************************************)
Add(items, x) == Append(items, x)

\* variant: removes the newest item instead of the oldest
QNextNewest(items) ==
    IF Len(items) = 0
    THEN [ item |-> ZeroValue, found |-> FALSE, items |-> items ]
    ELSE [ item  |-> items[Len(items)],
           found |-> TRUE,
           items |-> SubSeq(items, 1, Len(items) - 1) ]

QNext(items) ==
    IF Len(items) = 0
    THEN [ item |-> ZeroValue, found |-> FALSE, items |-> items ]
    ELSE [ item  |-> items[1],
           found |-> TRUE,
           items |-> SubSeq(items, 2, Len(items)) ]

\* variant: no empty check result, found is always true
QueuePeekAlwaysFound(items) ==
    IF Len(items) = 0
    THEN [ item |-> ZeroValue, found |-> TRUE ]
    ELSE [ item |-> items[1], found |-> TRUE ]

QueuePeek(items) ==
    IF Len(items) = 0
    THEN [ item |-> ZeroValue, found |-> FALSE ]
    ELSE [ item |-> items[1], found |-> TRUE ]

QueueIsEmpty(items) == Len(items) = 0

(***************************************************************************)
(* Initial states                                                          *)
(***************************************************************************)
NoRet == [ op |-> "none", item |-> ZeroValue, found |-> FALSE, empty |-> FALSE ]

InitContainers ==
    /\ stack_items = << >>
    /\ queue_items = << >>
    /\ log = << >>
    /\ ret = NoRet

InitMain ==
    /\ input = << >>
    /\ pc = "push"
    /\ i = 0
    /\ item = ZeroValue
    /\ found = FALSE
    /\ ch_in_closed = FALSE
    /\ num_valid = 0
    /\ printed = << >>
    /\ wpc = [ w \in Workers |-> "unborn" ]
    /\ w_item = [ w \in Workers |-> ZeroValue ]
    /\ w_valid = [ w \in Workers |-> FALSE ]
    /\ sent = 0
    /\ vrecv = 0
    /\ recvd = [ w \in Workers |-> 0 ]
    /\ vsent = [ w \in Workers |-> 0 ]
    /\ calls = [ w \in Workers |-> 0 ]
    /\ closes = 0

Init ==
    /\ NUM_INTS \in -1..MaxInts
    /\ W \in 1..MaxWorkers
    /\ validate \in [ ItemSet -> BOOLEAN ]
    /\ InitMain
    /\ InitContainers

(***************************************************************************)
(* main                                                                    *)
(***************************************************************************)
\* for i := 0; i <= NUM_INTS; i++ { stack_int.Push(5 + i*7) }
MainPush ==
    /\ pc = "push"
    /\ IF i <= NUM_INTS
       THEN /\ stack_items' = Push(stack_items, ItemAt(i))
            /\ input' = Append(input, ItemAt(i))
            /\ i' = i + 1
            /\ pc' = pc
       ELSE /\ i' = 1
            /\ pc' = "spawn"
            /\ UNCHANGED << stack_items, input >>
    /\ UNCHANGED << NUM_INTS, W, validate, queue_items, item, found,
                    ch_in_closed, num_valid, printed, wpc, w_item, w_valid,
                    sent, vrecv, recvd, vsent, calls, closes, log, ret >>

\* variant: the spawn loop runs while i < NUM_WORKERS
MainSpawnOneLess ==
    /\ pc = "spawn"
    /\ IF i < W
       THEN /\ wpc' = [ wpc EXCEPT ![i] = "recv" ]
            /\ i' = i + 1
            /\ pc' = pc
       ELSE /\ pc' = "loop"
            /\ UNCHANGED << wpc, i >>
    /\ UNCHANGED << NUM_INTS, W, validate, input, stack_items, queue_items,
                    item, found, ch_in_closed, num_valid, printed, w_item,
                    w_valid, sent, vrecv, recvd, vsent, calls, closes, log,
                    ret >>

\* for i := 1; i <= NUM_WORKERS; i++ { go worker(i, ch_in, ch_out, validate) }
MainSpawn ==
    /\ pc = "spawn"
    /\ IF i <= W
       THEN /\ wpc' = [ wpc EXCEPT ![i] = "recv" ]
            /\ i' = i + 1
            /\ pc' = pc
       ELSE /\ pc' = "loop"
            /\ UNCHANGED << wpc, i >>
    /\ UNCHANGED << NUM_INTS, W, validate, input, stack_items, queue_items,
                    item, found, ch_in_closed, num_valid, printed, w_item,
                    w_valid, sent, vrecv, recvd, vsent, calls, closes, log,
                    ret >>

\* variant: the emptiness test comes after the first pass of the body
MainLoopTestsLate ==
    /\ pc = "loop"
    /\ pc' = IF StackIsEmpty(stack_items) /\ sent > 0 THEN "close" ELSE "pop"
    /\ UNCHANGED << NUM_INTS, W, validate, input, stack_items, queue_items, i,
                    item, found, ch_in_closed, num_valid, printed, wpc, w_item,
                    w_valid, sent, vrecv, recvd, vsent, calls, closes, log,
                    ret >>

\* variant: the loop ends while one item is still on the stack
MainLoopLeavesOne ==
    /\ pc = "loop"
    /\ pc' = IF Len(stack_items) <= 1 THEN "close" ELSE "pop"
    /\ UNCHANGED << NUM_INTS, W, validate, input, stack_items, queue_items, i,
                    item, found, ch_in_closed, num_valid, printed, wpc, w_item,
                    w_valid, sent, vrecv, recvd, vsent, calls, closes, log,
                    ret >>

\* for !stack_int.IsEmpty() { ... }
MainLoop ==
    /\ pc = "loop"
    /\ pc' = IF StackIsEmpty(stack_items) THEN "close" ELSE "pop"
    /\ UNCHANGED << NUM_INTS, W, validate, input, stack_items, queue_items, i,
                    item, found, ch_in_closed, num_valid, printed, wpc, w_item,
                    w_valid, sent, vrecv, recvd, vsent, calls, closes, log,
                    ret >>

\* variant: an extra Pop drops an item that is never sent
MainPopTwice ==
    /\ pc = "pop"
    /\ item' = Pop(stack_items).item
    /\ found' = Pop(stack_items).found
    /\ stack_items' = Pop(Pop(stack_items).items).items
    /\ pc' = "send"
    /\ UNCHANGED << NUM_INTS, W, validate, input, queue_items, i,
                    ch_in_closed, num_valid, printed, wpc, w_item, w_valid,
                    sent, vrecv, recvd, vsent, calls, closes, log, ret >>

\* item, _ := stack_int.Pop()
MainPop ==
    /\ pc = "pop"
    /\ item' = Pop(stack_items).item
    /\ found' = Pop(stack_items).found
    /\ stack_items' = Pop(stack_items).items
    /\ pc' = "send"
    /\ UNCHANGED << NUM_INTS, W, validate, input, queue_items, i,
                    ch_in_closed, num_valid, printed, wpc, w_item, w_valid,
                    sent, vrecv, recvd, vsent, calls, closes, log, ret >>

\* a goroutine runs only while the process lives
Alive(w) ==
    /\ pc \notin { "exited", "crashed" }
    /\ wpc[w] \notin { "unborn", "done", "panicked" }

\* variant: main goes on to the next item without waiting for the verdict
SendItemNoWait(w) ==
    /\ pc = "send"
    /\ ~ch_in_closed
    /\ Alive(w)
    /\ wpc[w] = "recv"
    /\ w_item' = [ w_item EXCEPT ![w] = item ]
    /\ wpc' = [ wpc EXCEPT ![w] = "validate" ]
    /\ pc' = "loop"
    /\ sent' = sent + 1
    /\ recvd' = [ recvd EXCEPT ![w] = @ + 1 ]
    /\ UNCHANGED << NUM_INTS, W, validate, input, stack_items, queue_items, i,
                    item, found, ch_in_closed, num_valid, printed, w_valid,
                    vrecv, vsent, calls, closes, log, ret >>

\* ch_in <- item   meets   for item := range in   (unbuffered: a rendezvous)
SendItem(w) ==
    /\ pc = "send"
    /\ ~ch_in_closed
    /\ Alive(w)
    /\ wpc[w] = "recv"
    /\ w_item' = [ w_item EXCEPT ![w] = item ]
    /\ wpc' = [ wpc EXCEPT ![w] = "validate" ]
    /\ pc' = "recv"
    /\ sent' = sent + 1
    /\ recvd' = [ recvd EXCEPT ![w] = @ + 1 ]
    /\ UNCHANGED << NUM_INTS, W, validate, input, stack_items, queue_items, i,
                    item, found, ch_in_closed, num_valid, printed, w_valid,
                    vrecv, vsent, calls, closes, log, ret >>

\* variant: the worker itself counts a valid item
WorkerValidateCounts(w) ==
    /\ Alive(w)
    /\ wpc[w] = "validate"
    /\ w_valid' = [ w_valid EXCEPT ![w] = validate[w_item[w]] ]
    /\ num_valid' = IF validate[w_item[w]] THEN num_valid + 1 ELSE num_valid
    /\ calls' = [ calls EXCEPT ![w] = @ + 1 ]
    /\ wpc' = [ wpc EXCEPT ![w] = "send" ]
    /\ UNCHANGED << NUM_INTS, W, validate, input, stack_items, queue_items, pc,
                    i, item, found, ch_in_closed, printed, w_item,
                    sent, vrecv, recvd, vsent, closes, log, ret >>

\* variant: a fault of the validator is contained and reported as "not valid"
WorkerValidateContained(w) ==
    /\ Alive(w)
    /\ wpc[w] = "validate"
    /\ w_valid' = [ w_valid EXCEPT ![w] =
                       IF w_item[w] \in DOMAIN validate
                       THEN validate[w_item[w]] ELSE FALSE ]
    /\ calls' = [ calls EXCEPT ![w] = @ + 1 ]
    /\ wpc' = [ wpc EXCEPT ![w] = "send" ]
    /\ UNCHANGED << NUM_INTS, W, validate, input, stack_items, queue_items, pc,
                    i, item, found, ch_in_closed, num_valid, printed, w_item,
                    sent, vrecv, recvd, vsent, closes, log, ret >>

\* valid := validate(item)
\* The validator faults on the items outside its domain: the panic is not
\* recovered anywhere, so it ends the worker and with it the whole program.
WorkerValidate(w) ==
    /\ Alive(w)
    /\ wpc[w] = "validate"
    /\ calls' = [ calls EXCEPT ![w] = @ + 1 ]
    /\ IF w_item[w] \in DOMAIN validate
       THEN /\ w_valid' = [ w_valid EXCEPT ![w] = validate[w_item[w]] ]
            /\ wpc' = [ wpc EXCEPT ![w] = "send" ]
            /\ pc' = pc
       ELSE /\ wpc' = [ wpc EXCEPT ![w] = "panicked" ]
            /\ pc' = "crashed"
            /\ UNCHANGED w_valid
    /\ UNCHANGED << NUM_INTS, W, validate, input, stack_items, queue_items,
                    i, item, found, ch_in_closed, num_valid, printed, w_item,
                    sent, vrecv, recvd, vsent, closes, log, ret >>

\* variant: a false verdict is subtracted
SendVerdictPenalises(w) ==
    /\ pc = "recv"
    /\ Alive(w)
    /\ wpc[w] = "send"
    /\ num_valid' = IF w_valid[w] THEN num_valid + 1 ELSE num_valid - 1
    /\ pc' = "loop"
    /\ wpc' = [ wpc EXCEPT ![w] = "recv" ]
    /\ vsent' = [ vsent EXCEPT ![w] = @ + 1 ]
    /\ vrecv' = vrecv + 1
    /\ UNCHANGED << NUM_INTS, W, validate, input, stack_items, queue_items, i,
                    item, found, ch_in_closed, printed, w_item, w_valid, sent,
                    recvd, calls, closes, log, ret >>

\* variant: main counts every verdict, true or false
SendVerdictCountsAll(w) ==
    /\ pc = "recv"
    /\ Alive(w)
    /\ wpc[w] = "send"
    /\ num_valid' = num_valid + 1
    /\ pc' = "loop"
    /\ wpc' = [ wpc EXCEPT ![w] = "recv" ]
    /\ vsent' = [ vsent EXCEPT ![w] = @ + 1 ]
    /\ vrecv' = vrecv + 1
    /\ UNCHANGED << NUM_INTS, W, validate, input, stack_items, queue_items, i,
                    item, found, ch_in_closed, printed, w_item, w_valid, sent,
                    recvd, calls, closes, log, ret >>

\* out <- valid   meets   if <-ch_out { num_valid++ }
SendVerdict(w) ==
    /\ pc = "recv"
    /\ Alive(w)
    /\ wpc[w] = "send"
    /\ num_valid' = IF w_valid[w] THEN num_valid + 1 ELSE num_valid
    /\ pc' = "loop"
    /\ wpc' = [ wpc EXCEPT ![w] = "recv" ]
    /\ vsent' = [ vsent EXCEPT ![w] = @ + 1 ]
    /\ vrecv' = vrecv + 1
    /\ UNCHANGED << NUM_INTS, W, validate, input, stack_items, queue_items, i,
                    item, found, ch_in_closed, printed, w_item, w_valid, sent,
                    recvd, calls, closes, log, ret >>

\* variant: the worker gives up as soon as it waits, closed channel or not
WorkerFinishEarly(w) ==
    /\ Alive(w)
    /\ wpc[w] = "recv"
    /\ wpc' = [ wpc EXCEPT ![w] = "done" ]
    /\ UNCHANGED << NUM_INTS, W, validate, input, stack_items, queue_items, pc,
                    i, item, found, ch_in_closed, num_valid, printed, w_item,
                    w_valid, sent, vrecv, recvd, vsent, calls, closes, log,
                    ret >>

\* range over a closed, empty channel ends; "worker %d: Finished!"
WorkerFinish(w) ==
    /\ Alive(w)
    /\ wpc[w] = "recv"
    /\ ch_in_closed
    /\ wpc' = [ wpc EXCEPT ![w] = "done" ]
    /\ UNCHANGED << NUM_INTS, W, validate, input, stack_items, queue_items, pc,
                    i, item, found, ch_in_closed, num_valid, printed, w_item,
                    w_valid, sent, vrecv, recvd, vsent, calls, closes, log,
                    ret >>

\* close(ch_in)
MainClose ==
    /\ pc = "close"
    /\ ~ch_in_closed
    /\ ch_in_closed' = TRUE
    /\ closes' = closes + 1
    /\ pc' = "print"
    /\ UNCHANGED << NUM_INTS, W, validate, input, stack_items, queue_items, i,
                    item, found, num_valid, printed, wpc, w_item, w_valid,
                    sent, vrecv, recvd, vsent, calls, log, ret >>

\* variant: main joins the workers before it prints
MainPrintAfterJoin ==
    /\ pc = "print"
    /\ \A w \in 1..W : wpc[w] = "done"
    /\ printed' = Append(printed, num_valid)
    /\ pc' = "return"
    /\ UNCHANGED << NUM_INTS, W, validate, input, stack_items, queue_items, i,
                    item, found, ch_in_closed, num_valid, wpc, w_item, w_valid,
                    sent, vrecv, recvd, vsent, calls, closes, log, ret >>

\* fmt.Printf("Number of valid items: %d\n", num_valid)
MainPrint ==
    /\ pc = "print"
    /\ printed' = Append(printed, num_valid)
    /\ pc' = "return"
    /\ UNCHANGED << NUM_INTS, W, validate, input, stack_items, queue_items, i,
                    item, found, ch_in_closed, num_valid, wpc, w_item, w_valid,
                    sent, vrecv, recvd, vsent, calls, closes, log, ret >>

\* main returns: the program exits without waiting for the workers
MainReturn ==
    /\ pc = "return"
    /\ pc' = "exited"
    /\ UNCHANGED << NUM_INTS, W, validate, input, stack_items, queue_items, i,
                    item, found, ch_in_closed, num_valid, printed, wpc, w_item,
                    w_valid, sent, vrecv, recvd, vsent, calls, closes, log,
                    ret >>

Main ==
    \/ MainPush
    \/ MainSpawn
    \/ MainLoop
    \/ MainPop
    \/ MainClose
    \/ MainPrint
    \/ MainReturn

Worker(w) ==
    \/ SendItem(w)
    \/ WorkerValidate(w)
    \/ SendVerdict(w)
    \/ WorkerFinish(w)

Next ==
    \/ Main
    \/ \E w \in Workers : Worker(w)

Spec == Init /\ [][Next]_vars

\* every goroutine that can take a step eventually takes one
Fairness ==
    /\ WF_vars(Main)
    /\ \A w \in Workers : WF_vars(Worker(w))

\* progress does not depend on the verdicts: the validator of the program and
\* the two constant ones stand for the validators that always return
FairValidators ==
    { validate_int, [ n \in ItemSet |-> TRUE ], [ n \in ItemSet |-> FALSE ] }

InitFair ==
    /\ NUM_INTS \in -1..MaxInts
    /\ W \in 1..MaxWorkers
    /\ validate \in FairValidators
    /\ InitMain
    /\ InitContainers

FairSpec == InitFair /\ [][Next]_vars /\ Fairness

(***************************************************************************)
(* The containers on their own: any caller, any order of calls             *)
(***************************************************************************)
Values == 1..MaxK

Entry(op, x, f) == [ op |-> op, item |-> x, found |-> f ]

Result(op, x, f, e) == [ op |-> op, item |-> x, found |-> f, empty |-> e ]

InitADT ==
    /\ NUM_INTS = -1
    /\ W = 1
    /\ validate = validate_int
    /\ InitMain
    /\ InitContainers

\* s.Push(x)
DoPush(x) ==
    /\ Len(log) < MaxOps
    /\ stack_items' = Push(stack_items, x)
    /\ log' = Append(log, Entry("Push", x, TRUE))
    /\ ret' = Result("Push", ZeroValue, FALSE, FALSE)
    /\ UNCHANGED << queue_items, pipeVars >>

\* x, ok := s.Pop()
DoPop ==
    /\ Len(log) < MaxOps
    /\ stack_items' = Pop(stack_items).items
    /\ log' = Append(log, Entry("Pop", Pop(stack_items).item, Pop(stack_items).found))
    /\ ret' = Result("Pop", Pop(stack_items).item, Pop(stack_items).found, FALSE)
    /\ UNCHANGED << queue_items, pipeVars >>

\* x, ok := s.Peek()
DoStackPeek ==
    /\ ret' = Result("Peek", StackPeek(stack_items).item,
                     StackPeek(stack_items).found, FALSE)
    /\ UNCHANGED << stack_items, queue_items, log, pipeVars >>

\* e := s.IsEmpty()
DoStackIsEmpty ==
    /\ ret' = Result("IsEmpty", ZeroValue, FALSE, StackIsEmpty(stack_items))
    /\ UNCHANGED << stack_items, queue_items, log, pipeVars >>

NextStack ==
    \/ \E x \in Values : DoPush(x)
    \/ DoPop
    \/ DoStackPeek
    \/ DoStackIsEmpty

SpecStack == InitADT /\ [][NextStack]_vars

\* q.Add(x)
DoAdd(x) ==
    /\ Len(log) < MaxOps
    /\ queue_items' = Add(queue_items, x)
    /\ log' = Append(log, Entry("Add", x, TRUE))
    /\ ret' = Result("Add", ZeroValue, FALSE, FALSE)
    /\ UNCHANGED << stack_items, pipeVars >>

\* x, ok := q.Next()
DoNext ==
    /\ Len(log) < MaxOps
    /\ queue_items' = QNext(queue_items).items
    /\ log' = Append(log, Entry("Next", QNext(queue_items).item, QNext(queue_items).found))
    /\ ret' = Result("Next", QNext(queue_items).item, QNext(queue_items).found, FALSE)
    /\ UNCHANGED << stack_items, pipeVars >>

\* x, ok := q.Peek()
DoQueuePeek ==
    /\ ret' = Result("Peek", QueuePeek(queue_items).item,
                     QueuePeek(queue_items).found, FALSE)
    /\ UNCHANGED << stack_items, queue_items, log, pipeVars >>

\* e := q.IsEmpty()
DoQueueIsEmpty ==
    /\ ret' = Result("IsEmpty", ZeroValue, FALSE, QueueIsEmpty(queue_items))
    /\ UNCHANGED << stack_items, queue_items, log, pipeVars >>

NextQueue ==
    \/ \E x \in Values : DoAdd(x)
    \/ DoNext
    \/ DoQueuePeek
    \/ DoQueueIsEmpty

SpecQueue == InitADT /\ [][NextQueue]_vars

\* a caller that works on one of the two containers (they share no state, so
\* the calls on one never influence the other)
OnlyStackCalls == queue_items = << >> /\ \A n \in 1..Len(log) : log[n].op \in { "Push", "Pop" }

OnlyQueueCalls == stack_items = << >> /\ \A n \in 1..Len(log) : log[n].op \in { "Add", "Next" }

CallPush(x) == OnlyStackCalls /\ DoPush(x)

CallPop == OnlyStackCalls /\ DoPop

CallStackPeek == OnlyStackCalls /\ DoStackPeek

CallStackIsEmpty == OnlyStackCalls /\ DoStackIsEmpty

CallAdd(x) == OnlyQueueCalls /\ DoAdd(x)

CallNext == OnlyQueueCalls /\ DoNext

CallQueuePeek == OnlyQueueCalls /\ DoQueuePeek

CallQueueIsEmpty == OnlyQueueCalls /\ DoQueueIsEmpty

NextADT ==
    \/ \E x \in Values : CallPush(x)
    \/ CallPop
    \/ CallStackPeek
    \/ CallStackIsEmpty
    \/ \E x \in Values : CallAdd(x)
    \/ CallNext
    \/ CallQueuePeek
    \/ CallQueueIsEmpty

SpecADT == InitADT /\ [][NextADT]_vars

(***************************************************************************)
(* Misconfigured worker count: NUM_WORKERS <= 0                            *)
(***************************************************************************)
InitAnyW ==
    /\ NUM_INTS \in -1..MaxInts
    /\ W \in -1..MaxWorkers
    /\ validate \in [ ItemSet -> BOOLEAN ]
    /\ InitMain
    /\ InitContainers

SpecAnyW == InitAnyW /\ [][Next]_vars

(***************************************************************************)
(* A validator that faults on some items                                   *)
(***************************************************************************)
\* validate_int made to fault on the items of F
FaultyValidators ==
    { [ n \in ItemSet \ F |-> n % 2 = 0 ] : F \in SUBSET ItemSet }

InitFault ==
    /\ NUM_INTS \in -1..MaxInts
    /\ W \in 1..MaxWorkers
    /\ validate \in FaultyValidators
    /\ InitMain
    /\ InitContainers

SpecFault == InitFault /\ [][Next]_vars

(***************************************************************************)
(* Auxiliary operators of the properties                                   *)
(***************************************************************************)
RECURSIVE SumTo(_, _)
SumTo(f, n) == IF n = 0 THEN 0 ELSE f[n] + SumTo(f, n - 1)

Total(f) == SumTo(f, MaxWorkers)

SetMax(S) == CHOOSE x \in S : \A y \in S : y <= x

SetMin(S) == CHOOSE x \in S : \A y \in S : x <= y

\* number of pushed items the validator accepts
CountValid == Cardinality({ k \in 1..Len(input) : validate[input[k]] })

Reported == printed # << >>

Spawned == 1..W

AllTerminated == \A w \in Spawned : wpc[w] = "done"

\* positions of the inserts among the first n calls whose item is still inside
\* a last-in-first-out container
RECURSIVE LiveLIFO(_, _)
LiveLIFO(l, n) ==
    IF n = 0 THEN {}
    ELSE LET prev == LiveLIFO(l, n - 1)
         IN  IF l[n].op \in { "Push", "Add" } THEN prev \cup { n }
             ELSE IF prev = {} THEN {} ELSE prev \ { SetMax(prev) }

\* the same for a first-in-first-out container
RECURSIVE LiveFIFO(_, _)
LiveFIFO(l, n) ==
    IF n = 0 THEN {}
    ELSE LET prev == LiveFIFO(l, n - 1)
         IN  IF l[n].op \in { "Push", "Add" } THEN prev \cup { n }
             ELSE IF prev = {} THEN {} ELSE prev \ { SetMin(prev) }

\* the log is k inserts of 1..k followed by k removals
IsDrain(ins, rem, k) ==
    /\ Len(log) = 2 * k
    /\ \A j \in 1..k : log[j] = Entry(ins, j, TRUE) /\ log[k + j].op = rem

(***************************************************************************)
(* C1: once the count is printed (after the input channel was closed), it  *)
(* equals the number of pushed items for which the validator is true,      *)
(* whatever the interleaving of the workers.                               *)
(***************************************************************************)
C1_AggregateCount ==
    Reported => /\ ch_in_closed
                /\ printed = << CountValid >>

\* the scenario 5, 12, 19, 26 / is even / three workers
C1_Witness ==
    /\ input = << 5, 12, 19, 26 >>
    /\ validate = validate_int
    /\ W = 3
    /\ printed = << 2 >>

(***************************************************************************)
(* C2: every send on the input channel is taken by exactly one worker and  *)
(* every verdict sent is received once by main; when the count is printed  *)
(* the whole stack was removed and items sent = items received = verdicts  *)
(* sent = verdicts received = N.                                           *)
(***************************************************************************)
C2_ExactlyOnce ==
    /\ sent = Total(recvd)
    /\ vrecv = Total(vsent)
    /\ \A w \in Workers : vsent[w] <= recvd[w] /\ recvd[w] <= vsent[w] + 1
    /\ Reported => /\ stack_items = << >>
                   /\ sent = Len(input)
                   /\ Total(recvd) = Len(input)
                   /\ Total(vsent) = Len(input)
                   /\ vrecv = Len(input)

C2_Witness ==
    /\ Reported
    /\ Len(input) = 3
    /\ W = 3
    /\ \A w \in Spawned : recvd[w] = 1 /\ vsent[w] = 1

(***************************************************************************)
(* C3: with W >= 1 and fair scheduling, main is never blocked forever on   *)
(* its send or on its receive, and it eventually closes the input channel  *)
(* and prints the count.                                                   *)
(***************************************************************************)
C3_NoDeadlock ==
    /\ (pc = "send") ~> (pc # "send")
    /\ (pc = "recv") ~> (pc # "recv")
    /\ <>(ch_in_closed /\ Reported)

C3_Witness ==
    /\ pc = "exited"
    /\ Reported
    /\ sent = 2
    /\ W = 1

(***************************************************************************)
(* C4: the input channel is closed at most once (exactly once by the time  *)
(* the count is printed), and only when the stack is empty, main is at the *)
(* close statement (not at a send) and no item is in flight; once closed   *)
(* it stays closed and nothing more is sent on it.                         *)
(***************************************************************************)
C4_CloseOnce ==
    /\ [][ (~ch_in_closed /\ ch_in_closed') =>
              /\ pc = "close"
              /\ StackIsEmpty(stack_items)
              /\ sent = vrecv
              /\ \A w \in Workers : wpc[w] \notin { "validate", "send" } ]_vars
    /\ [][ ch_in_closed => (ch_in_closed' /\ sent' = sent /\ closes' = closes) ]_vars
    /\ [](closes <= 1 /\ (ch_in_closed <=> closes = 1))
    /\ [](Reported => closes = 1)

C4_Witness ==
    /\ ch_in_closed
    /\ pc = "print"
    /\ sent = 4
    /\ closes = 1

(***************************************************************************)
(* C5: after the input channel is closed, every spawned worker eventually  *)
(* reaches Terminated, and no worker stays at its receive or at its send   *)
(* forever.                                                                *)
(***************************************************************************)
C5_AllWorkersTerminate ==
    /\ ch_in_closed ~> AllTerminated
    /\ \A w \in Workers : (wpc[w] = "send") ~> (wpc[w] # "send")

(***************************************************************************)
(* C6: with W <= 0 main removes nothing from the stack and never stands at *)
(* the send on the input channel.                                          *)
(***************************************************************************)
C6_RejectsNonPositive ==
    (W <= 0 /\ pc \notin { "push", "spawn" }) =>
        /\ pc # "send"
        /\ Len(stack_items) = Len(input)
        /\ sent = 0

(***************************************************************************)
(* C7: with an empty stack (NUM_INTS < 0) nothing is ever sent or          *)
(* received by main, no worker ever calls the validator, the channel is    *)
(* closed, the printed count is 0, and every worker terminates.            *)
(***************************************************************************)
C7_EmptySequence ==
    (NUM_INTS < 0) =>
        /\ [](sent = 0 /\ vrecv = 0 /\ \A w \in Workers : calls[w] = 0)
        /\ [](pc \notin { "pop", "send", "recv" })
        /\ <>(ch_in_closed /\ printed = << 0 >>)
        /\ <>AllTerminated

(***************************************************************************)
(* C8: with W > N at least W - N workers end Terminated without having     *)
(* received an item, and the printed count is the count of valid items,    *)
(* which does not depend on W.                                             *)
(***************************************************************************)
C8_SurplusWorkers ==
    /\ [](Reported => printed = << CountValid >>)
    /\ (W > NUM_INTS + 1) =>
          <>(Cardinality({ w \in Spawned : wpc[w] = "done" /\ recvd[w] = 0 })
                >= W - (NUM_INTS + 1))

(***************************************************************************)
(* C9: every Pop returns the most recently pushed item that was not yet    *)
(* popped (found = false exactly when there is none), and after Push of    *)
(* 1..k on an empty stack k Pops return k, k-1, ..., 1 with found = true   *)
(* and leave the stack empty.                                              *)
(***************************************************************************)
C9_LIFO ==
    /\ \A n \in 1..Len(log) :
          log[n].op = "Pop" =>
             LET live == LiveLIFO(log, n - 1)
             IN  IF live = {} THEN ~log[n].found
                 ELSE log[n].found /\ log[n].item = log[SetMax(live)].item
    /\ Len(stack_items) = Cardinality(LiveLIFO(log, Len(log)))
    /\ \A k \in 1..MaxK :
          IsDrain("Push", "Pop", k) =>
             /\ \A j \in 1..k : log[k + j] = Entry("Pop", k + 1 - j, TRUE)
             /\ stack_items = << >>

C9_Witness ==
    /\ IsDrain("Push", "Pop", 3)
    /\ log[4].item = 3
    /\ log[6].item = 1
    /\ StackIsEmpty(stack_items)

(***************************************************************************)
(* C10: every Next returns the earliest added item that was not yet        *)
(* removed, also when Add and Next are interleaved, and after Add of 1..k  *)
(* to an empty queue k Nexts return 1, 2, ..., k with found = true and     *)
(* leave the queue empty.                                                  *)
(***************************************************************************)
C10_FIFO ==
    /\ \A n \in 1..Len(log) :
          log[n].op = "Next" =>
             LET live == LiveFIFO(log, n - 1)
             IN  IF live = {} THEN ~log[n].found
                 ELSE log[n].found /\ log[n].item = log[SetMin(live)].item
    /\ Len(queue_items) = Cardinality(LiveFIFO(log, Len(log)))
    /\ \A k \in 1..MaxK :
          IsDrain("Add", "Next", k) =>
             /\ \A j \in 1..k : log[k + j] = Entry("Next", j, TRUE)
             /\ queue_items = << >>

C10_Witness ==
    /\ IsDrain("Add", "Next", 3)
    /\ log[4].item = 1
    /\ log[6].item = 3
    /\ QueueIsEmpty(queue_items)

(***************************************************************************)
(* C11: on an empty Stack or Queue (new, or emptied by removals) Pop, Next *)
(* and Peek return found = false with the zero value and leave the         *)
(* container empty; the container stays usable: an insert followed by a    *)
(* removal then returns the inserted item with found = true.               *)
(***************************************************************************)
C11_EmptyNotFound ==
    /\ [][ (DoPop /\ StackIsEmpty(stack_items)) =>
              (ret' = Result("Pop", ZeroValue, FALSE, FALSE) /\ stack_items' = << >>) ]_vars
    /\ [][ (DoStackPeek /\ StackIsEmpty(stack_items)) =>
              (ret' = Result("Peek", ZeroValue, FALSE, FALSE) /\ stack_items' = << >>) ]_vars
    /\ [][ (DoNext /\ QueueIsEmpty(queue_items)) =>
              (ret' = Result("Next", ZeroValue, FALSE, FALSE) /\ queue_items' = << >>) ]_vars
    /\ [][ (DoQueuePeek /\ QueueIsEmpty(queue_items)) =>
              (ret' = Result("Peek", ZeroValue, FALSE, FALSE) /\ queue_items' = << >>) ]_vars
    /\ [](\A n \in 1..Len(log) :
             (/\ n + 2 <= Len(log)
              /\ log[n].op \in { "Pop", "Next" }
              /\ ~log[n].found
              /\ log[n + 1].op \in { "Push", "Add" }
              /\ log[n + 2].op \in { "Pop", "Next" })
             => (log[n + 2].found /\ log[n + 2].item = log[n + 1].item))

\* a stack emptied by a removal, a Pop that finds nothing, then Push 2 and Pop
C11_Witness ==
    /\ Len(log) = 5
    /\ log[1] = Entry("Push", 1, TRUE)
    /\ log[2] = Entry("Pop", 1, TRUE)
    /\ log[3] = Entry("Pop", ZeroValue, FALSE)
    /\ log[4] = Entry("Push", 2, TRUE)
    /\ log[5] = Entry("Pop", 2, TRUE)
    /\ ret = Result("Peek", ZeroValue, FALSE, FALSE)

(***************************************************************************)
(* C12: Peek changes neither the contents nor IsEmpty and returns the pair *)
(* that Pop / Next returns in the same state: a removal that follows a     *)
(* Peek returns the peeked pair, and repeated Peeks return the same pair.  *)
(***************************************************************************)
C12_PeekAgrees ==
    /\ [][ DoStackPeek =>
              /\ stack_items' = stack_items
              /\ StackIsEmpty(stack_items') = StackIsEmpty(stack_items)
              /\ ret'.item = Pop(stack_items).item
              /\ ret'.found = Pop(stack_items).found
              /\ (ret.op = "Peek" /\ OnlyStackCalls /\ log # << >> => ret' = ret) ]_vars
    /\ [][ (DoPop /\ ret.op = "Peek" /\ log # << >>) =>
              (ret'.item = ret.item /\ ret'.found = ret.found) ]_vars
    /\ [][ DoQueuePeek =>
              /\ queue_items' = queue_items
              /\ QueueIsEmpty(queue_items') = QueueIsEmpty(queue_items)
              /\ ret'.item = QNext(queue_items).item
              /\ ret'.found = QNext(queue_items).found
              /\ (ret.op = "Peek" /\ OnlyQueueCalls /\ log # << >> => ret' = ret) ]_vars
    /\ [][ (DoNext /\ ret.op = "Peek" /\ log # << >>) =>
              (ret'.item = ret.item /\ ret'.found = ret.found) ]_vars

\* a Peek on a stack of three items: the newest is returned, all three stay
C12_Witness ==
    /\ Len(log) = 3
    /\ stack_items = << 1, 2, 3 >>
    /\ ret = Result("Peek", 3, TRUE, FALSE)

(***************************************************************************)
(* C13: at most one item is in flight: items sent minus verdicts received  *)
(* is 0 or 1, and that many workers (so at most one) are between receiving *)
(* an item and having sent its verdict, whatever W is.                     *)
(***************************************************************************)
Busy == { w \in Workers : wpc[w] \in { "validate", "send" } }

C13_OneInFlight ==
    /\ sent - vrecv \in { 0, 1 }
    /\ Cardinality(Busy) = sent - vrecv
    /\ \A w \in Workers : recvd[w] - vsent[w] = IF w \in Busy THEN 1 ELSE 0

C13_Witness ==
    /\ W = 3
    /\ sent = 3
    /\ vrecv = 2
    /\ wpc[3] = "send"
    /\ wpc[1] = "recv"
    /\ wpc[2] = "recv"

(***************************************************************************)
(* C14: the k-th item sent is the k-th item in stack order (the newest     *)
(* pushed first), and the k-th verdict main receives is the validator's    *)
(* result for that k-th item, whichever worker handled it.                 *)
(***************************************************************************)
KthSent(k) == input[Len(input) + 1 - k]

C14_OrderAndPairing ==
    /\ [][ sent' = sent + 1 =>
              /\ item = KthSent(sent + 1)
              /\ \E w \in Workers : /\ wpc[w] = "recv"
                                    /\ wpc'[w] = "validate"
                                    /\ w_item'[w] = KthSent(sent + 1) ]_vars
    /\ [][ vrecv' = vrecv + 1 =>
              /\ sent = vrecv + 1
              /\ \E w \in Workers : /\ wpc[w] = "send"
                                    /\ wpc'[w] = "recv"
                                    /\ w_item[w] = KthSent(vrecv + 1)
                                    /\ w_valid[w] = validate[KthSent(vrecv + 1)]
              /\ num_valid' - num_valid =
                    IF validate[KthSent(vrecv + 1)] THEN 1 ELSE 0 ]_vars

\* two iterations finished, handled by two different workers
C14_Witness ==
    /\ pc = "loop"
    /\ Len(input) = 4
    /\ vrecv = 2
    /\ recvd[1] = 1
    /\ recvd[2] = 1

(***************************************************************************)
(* C15: num_valid is the number of true verdicts received so far; it never *)
(* decreases, grows by at most 1 and only when a verdict is received, and  *)
(* never exceeds the number of items sent.                                 *)
(***************************************************************************)
TrueVerdicts == Cardinality({ k \in 1..vrecv : validate[KthSent(k)] })

C15_CountInvariant ==
    /\ [](num_valid = TrueVerdicts /\ num_valid <= sent /\ num_valid >= 0)
    /\ [][ /\ num_valid' >= num_valid
           /\ num_valid' <= num_valid + 1
           /\ (num_valid' # num_valid => vrecv' = vrecv + 1) ]_vars

C15_Witness ==
    /\ pc = "loop"
    /\ vrecv = 4
    /\ num_valid = 2

(***************************************************************************)
(* C16: a worker is Terminated only after the input channel was closed and *)
(* the stack emptied; Terminated is final; the terminating step sends no   *)
(* verdict; a worker never sent more verdicts than it received items, and  *)
(* a Terminated worker sent exactly as many.                               *)
(***************************************************************************)
C16_SilentTermination ==
    /\ [](\A w \in Workers :
             /\ vsent[w] <= recvd[w]
             /\ wpc[w] = "done" => /\ ch_in_closed
                                   /\ StackIsEmpty(stack_items)
                                   /\ pc \in { "print", "return", "exited" }
                                   /\ vsent[w] = recvd[w])
    /\ [][ \A w \in Workers :
              /\ wpc[w] = "done" => (wpc'[w] = "done" /\ vsent'[w] = vsent[w])
              /\ (wpc[w] # "done" /\ wpc'[w] = "done") =>
                    (vsent' = vsent /\ vrecv' = vrecv /\ num_valid' = num_valid) ]_vars

\* a worker that handled two items is Terminated while another still runs
C16_Witness ==
    /\ W = 2
    /\ wpc[1] = "done"
    /\ recvd[1] = 2
    /\ wpc[2] = "recv"

(***************************************************************************)
(* C17: a worker's receive, validate and terminate steps change neither    *)
(* the stack nor num_valid; the stack changes only in main's Push and Pop  *)
(* and num_valid only when main completes its receive of a verdict; every  *)
(* loop iteration removes exactly one item.                                *)
(***************************************************************************)
C17_Ownership ==
    /\ [][ (\E w \in Workers : SendItem(w) \/ WorkerValidate(w) \/ WorkerFinish(w))
              => UNCHANGED << stack_items, num_valid >> ]_vars
    /\ [][ (\E w \in Workers : SendVerdict(w)) => UNCHANGED stack_items ]_vars
    /\ [][ stack_items' # stack_items => (MainPush \/ MainPop) ]_vars
    /\ [][ num_valid' # num_valid => (pc = "recv" /\ pc' = "loop") ]_vars
    /\ [][ MainPop => Len(stack_items') = Len(stack_items) - 1 ]_vars
    /\ [](pc # "push" =>
             Len(input) - Len(stack_items) = sent + (IF pc = "send" THEN 1 ELSE 0))

\* a worker holds a true verdict for the third item while one item is left
C17_Witness ==
    /\ \E w \in Workers : wpc[w] = "send" /\ w_valid[w]
    /\ num_valid = 1
    /\ Len(stack_items) = 1
    /\ sent = 3

(***************************************************************************)
(* C18: when the validator faults on an item inside a worker, no verdict   *)
(* is sent for that item, no count is printed and main never closes the    *)
(* input channel: the program ends while main waits at its receive.        *)
(***************************************************************************)
FaultAt(w) ==
    /\ recvd[w] > 0
    /\ w_item[w] \notin DOMAIN validate
    /\ wpc[w] # "validate"

C18_ValidatorFault ==
    /\ [](\A w \in Workers :
             FaultAt(w) => /\ pc = "crashed"
                           /\ printed = << >>
                           /\ ~ch_in_closed
                           /\ closes = 0
                           /\ vsent[w] = recvd[w] - 1
                           /\ vrecv = sent - 1)
    /\ [][ (\E w \in Workers : FaultAt(w)) =>
              UNCHANGED << vsent, vrecv, num_valid, printed, ch_in_closed, pc >> ]_vars
    /\ [][ (pc # "crashed" /\ pc' = "crashed") => pc = "recv" ]_vars

\* the second item sent faults after the first was counted
C18_Witness ==
    /\ pc = "crashed"
    /\ W = 2
    /\ sent = 2
    /\ vrecv = 1
    /\ num_valid = 1
    /\ \E w \in Workers : wpc[w] = "panicked"

(***************************************************************************)
(* C19: after close(ch_in) main prints and returns without any receive or  *)
(* join: its print and its return are enabled whatever the workers do, and *)
(* nothing is received in between.  Hence the count can be printed and the *)
(* program ended while none of the W workers is Terminated (the witness).  *)
(***************************************************************************)
C19_NoJoin ==
    /\ [](pc = "print" => ENABLED MainPrint)
    /\ [](pc = "return" => ENABLED MainReturn)
    /\ [][ (pc \in { "close", "print", "return" }) =>
              (sent' = sent /\ vrecv' = vrecv) ]_vars

\* count printed, program ended, all three workers still at their receive
C19_Witness ==
    /\ pc = "exited"
    /\ Reported
    /\ W = 3
    /\ \A w \in Spawned : wpc[w] = "recv"

(***************************************************************************)
(* C20: main discards the found flag of Pop, but every Pop of the loop     *)
(* runs on a non-empty stack and returns found = true; the zero value is   *)
(* never sent to a worker, and the number of items sent at the end equals  *)
(* the number of items pushed before the run.                              *)
(***************************************************************************)
C20_PopAlwaysFinds ==
    /\ [](pc = "pop" => ~StackIsEmpty(stack_items))
    /\ [][ MainPop => (found' /\ item' \in ItemSet /\ item' # ZeroValue) ]_vars
    /\ [](pc \in { "send", "recv" } => (found /\ item # ZeroValue))
    /\ [](\A w \in Workers :
             wpc[w] \in { "validate", "send" } =>
                (w_item[w] \in ItemSet /\ w_item[w] # ZeroValue))
    /\ [](Reported => sent = Len(input))

\* the last Pop emptied the stack and found the first item pushed
C20_Witness ==
    /\ pc = "send"
    /\ found
    /\ item = 5
    /\ stack_items = << >>
    /\ sent = 3

====
